---- MODULE Spec2Model ----
(***************************************************************************)
(* A model of ctcarrier/pudl:                                              *)
(*   - src/src/pudl/io_managers.py : SQLiteIOManager (bulk table           *)
(*     replacement, load_input, the deferred foreign-key check)            *)
(*   - src/pudl/outputs.py         : the EIA 923 aggregating outputs       *)
(* Spec    is the storage loader / integrity verifier state machine.       *)
(* SpecAgg applies the aggregating output functions to bounded inputs.     *)
(***************************************************************************)
EXTENDS Integers, Sequences, FiniteSets, TLC

VARIABLES
    store,      \* the SQLite database: table name -> sequence of rows (rowid = position)
    unregistered, \* tables of the database that the schema registry does not hold
    views,      \* views of the database: view name -> NULL or <<query>>
    db_file,    \* the database file: whether it exists, whether the engine is
                \* set up, and the definition each schema table has in it
    call,       \* per writer: the handle_output call in progress / last made
    ret,        \* what the step just taken handed back to its caller (and logged)
    request,    \* the output-function call: [fn, freq, recs]
    out_df      \* the DataFrame an output function returned (NotCalled before)

storeVars == <<store, call, ret>>
catalogVars == <<unregistered, views, db_file>>
aggVars == <<request, out_df>>
vars == <<store, unregistered, views, db_file, call, ret, request, out_df>>

(***************************************************************************)
(* Bounds                                                                  *)
(***************************************************************************)
\* longest DataFrame handed to handle_output
MaxRows == 2
\* most records in the table an output function reads
MaxRecs == 2

(***************************************************************************)
(* Cells: a SQL value is NULL or a number                                  *)
(***************************************************************************)
NULL == <<>>
Val(n) == <<n>>

RECURSIVE Flatten(_)
Flatten(ss) == IF ss = <<>> THEN <<>> ELSE Head(ss) \o Flatten(Tail(ss))

SeqsUpTo(S, n) == UNION {[1..k -> S] : k \in 0..n}

NoRepeats(s) == \A i, j \in 1..Len(s) : s[i] = s[j] => i = j

(***************************************************************************)
(* The schema registry handed to the constructor (self.md): three tables,  *)
(* the child declaring two single-column foreign keys into the same parent *)
(* and one composite foreign key into another parent.                      *)
(***************************************************************************)
TableOrder == <<"child", "other", "parent">>
TableNames == {TableOrder[i] : i \in 1..Len(TableOrder)}

Columns(t) ==
    CASE t = "child" -> <<"x", "y">>
      [] t = "parent" -> <<"a", "b">>
      [] t = "other" -> <<"k", "l">>

\* the REFERENCES clauses of CREATE TABLE t, as md.create_all emits them
ForeignKeyConstraints(t) ==
    IF t = "child"
    THEN << [id |-> 0, table |-> "parent", from |-> <<"x">>, to |-> <<"a">>],
            [id |-> 1, table |-> "parent", from |-> <<"y">>, to |-> <<"b">>],
            [id |-> 2, table |-> "other", from |-> <<"x", "y">>, to |-> <<"k", "l">>] >>
    ELSE <<>>

\* CREATE TABLE t as md.create_all(engine) emits it
SchemaDefinition(t) ==
    [columns |-> Columns(t), foreign_keys |-> ForeignKeyConstraints(t)]

\* self.md.create_all(engine): every table of the schema, as <<definition>>
CreateAll == [t \in TableNames |-> <<SchemaDefinition(t)>>]

ColIndex(t, c) == CHOOSE i \in 1..Len(Columns(t)) : Columns(t)[i] = c
Cell(t, row, c) == row[ColIndex(t, c)]

(***************************************************************************)
(* The DataFrames the assets hand to handle_output                         *)
(***************************************************************************)
RowsOf(t) ==
    CASE t = "child" -> { <<Val(1), Val(1)>>, <<Val(2), Val(1)>>,
                          <<Val(1), NULL>> }
      [] t = "parent" -> { <<Val(1), Val(1)>>, <<Val(2), Val(2)>> }
      [] t = "other" -> { <<Val(1), Val(1)>> }

\* parent keys are unique (they are referenced by foreign keys)
DataFrames(t) ==
    IF t = "child" THEN SeqsUpTo(RowsOf(t), MaxRows)
    ELSE {s \in SeqsUpTo(RowsOf(t), MaxRows) : NoRepeats(s)}

(***************************************************************************)
(* SQLite as the code drives it.  The code targets SQLAlchemy 1.x (line    *)
(* 295 executes a plain string): a statement executed on a connection      *)
(* from engine.connect() outside any begin() is committed as soon as it    *)
(* ran, and DataFrame.to_sql runs its INSERTs in one transaction of its    *)
(* own.  So handle_output is two commits: the DELETE, then the INSERT.     *)
(***************************************************************************)

\* (mutant) the engine set up with PRAGMA foreign_keys=ON
ForeignKeysPragmaOn == TRUE

\* PRAGMA foreign_keys: SQLite's default, since _setup_database creates the
\* engine and the tables and never switches it on
ForeignKeysPragma == FALSE

\* row of table t has no match in the parent of constraint fk
Orphan(db, t, row, fk) ==
    /\ \A i \in 1..Len(fk.from) : Cell(t, row, fk.from[i]) # NULL
    /\ ~ \E p \in 1..Len(db[fk.table]) :
            \A i \in 1..Len(fk.from) :
                Cell(fk.table, db[fk.table][p], fk.to[i]) = Cell(t, row, fk.from[i])

\* PRAGMA foreign_key_check: one row (table, rowid, parent, fkid) per
\* violated constraint of each row
PragmaForeignKeyCheck(db) ==
    Flatten([ti \in 1..Len(TableOrder) |->
        LET t == TableOrder[ti]
            fks == ForeignKeyConstraints(t)
        IN Flatten([r \in 1..Len(db[t]) |->
               Flatten([k \in 1..Len(fks) |->
                   IF Orphan(db, t, db[t][r], fks[k])
                   THEN << [table |-> t, rowid |-> r,
                            parent |-> fks[k].table, fkid |-> fks[k].id] >>
                   ELSE <<>> ]) ]) ])

\* PRAGMA foreign_key_list(t): one row per column of each constraint
PragmaForeignKeyList(t) ==
    LET fks == ForeignKeyConstraints(t)
    IN Flatten([k \in 1..Len(fks) |->
           [i \in 1..Len(fks[k].from) |->
               [id |-> fks[k].id, seq |-> i - 1, table |-> fks[k].table,
                from |-> fks[k].from[i], to |-> fks[k].to[i]] ] ])

\* _get_fk_list: the "fk" column is the join of the "to" fields of the rows
\* grouped by parent table (the sequence of names stands for the string
\* "(" + ", ".join(names) + ")"), then [id, table, fk].drop_duplicates()
GetFkList(t) ==
    LET table_fks == PragmaForeignKeyList(t)
        fk(r) == LET Same(q) == q.table = r.table
                     grp == SelectSeq(table_fks, Same)
                 IN [i \in 1..Len(grp) |-> grp[i].to]
    IN { [fkid |-> table_fks[i].id, parent |-> table_fks[i].table,
          fk |-> fk(table_fks[i]), table |-> t] : i \in 1..Len(table_fks) }

\* fk_errors.merge(table_foreign_keys, how="left", on=[parent, fkid, table])
MergeFkErrors(fk_errors, table_foreign_keys) ==
    [i \in 1..Len(fk_errors) |->
        LET e == fk_errors[i]
            m == {k \in table_foreign_keys :
                    k.parent = e.parent /\ k.fkid = e.fkid /\ k.table = e.table}
        IN [table |-> e.table, rowid |-> e.rowid, parent |-> e.parent,
            fkid |-> e.fkid,
            fk |-> IF m = {} THEN NULL ELSE (CHOOSE k \in m : TRUE).fk] ]

\* (mutant) fail on the first violation found: only the group of the first row
GroupFkErrorsFirstOnly(fk_errors_with_keys) ==
    LET first == SubSeq(fk_errors_with_keys, 1, 1)
        keys == { <<first[i].table, first[i].parent, first[i].fk>> :
                    i \in {j \in 1..Len(first) : first[j].fk # NULL} }
        rowidsOf(key) ==
            LET In(e) == <<e.table, e.parent, e.fk>> = key
                parent_fk_df == SelectSeq(fk_errors_with_keys, In)
            IN [i \in 1..Len(parent_fk_df) |-> parent_fk_df[i].rowid]
    IN { [child_table |-> key[1], parent_table |-> key[2],
          foreign_key |-> key[3], rowids |-> rowidsOf(key)] : key \in keys }

\* (mutant) the group key unpacked in the wrong order: child and parent swapped
GroupFkErrorsSwapped(fk_errors_with_keys) ==
    LET n == Len(fk_errors_with_keys)
        keys == { <<fk_errors_with_keys[i].table, fk_errors_with_keys[i].parent,
                    fk_errors_with_keys[i].fk>> :
                    i \in {j \in 1..n : fk_errors_with_keys[j].fk # NULL} }
        rowidsOf(key) ==
            LET In(e) == <<e.table, e.parent, e.fk>> = key
                parent_fk_df == SelectSeq(fk_errors_with_keys, In)
            IN [i \in 1..Len(parent_fk_df) |-> parent_fk_df[i].rowid]
    IN { [child_table |-> key[2], parent_table |-> key[1],
          foreign_key |-> key[3], rowids |-> rowidsOf(key)] : key \in keys }

\* groupby(["table", "parent", "fk"]): one ForeignKeyError per group
\* (rows whose key holds a missing value belong to no group)
GroupFkErrors(fk_errors_with_keys) ==
    LET n == Len(fk_errors_with_keys)
        keys == { <<fk_errors_with_keys[i].table, fk_errors_with_keys[i].parent,
                    fk_errors_with_keys[i].fk>> :
                    i \in {j \in 1..n : fk_errors_with_keys[j].fk # NULL} }
        rowidsOf(key) ==
            LET In(e) == <<e.table, e.parent, e.fk>> = key
                parent_fk_df == SelectSeq(fk_errors_with_keys, In)
            IN [i \in 1..Len(parent_fk_df) |-> parent_fk_df[i].rowid]
    IN { [child_table |-> key[1], parent_table |-> key[2],
          foreign_key |-> key[3], rowids |-> rowidsOf(key)] : key \in keys }

\* check_foreign_keys: None when the check returns no row, else the
\* ForeignKeyErrors it raises
CheckForeignKeysResult(db) ==
    LET fk_errors == PragmaForeignKeyCheck(db)
        tables_with_fk_errors == {fk_errors[i].table : i \in 1..Len(fk_errors)}
        table_foreign_keys == UNION {GetFkList(t) : t \in tables_with_fk_errors}
    IN IF fk_errors = <<>>
       THEN [error |-> "none", errors |-> {}]
       ELSE [error |-> "ForeignKeyErrors",
             errors |-> GroupFkErrors(MergeFkErrors(fk_errors, table_foreign_keys))]

(***************************************************************************)
(* SQLiteIOManager                                                         *)
(***************************************************************************)
Writers == {"w1", "w2"}
\* the orchestrator runs the loads of one store one after the other
SeqWriters == {"w1"}

Range(s) == {s[i] : i \in 1..Len(s)}

\* with PRAGMA foreign_keys on, SQLite refuses the statement that would
\* create an orphan; with it off (the code) it refuses nothing
InsertRejected(db, t, df) ==
    /\ ForeignKeysPragma
    /\ \E i \in 1..Len(df) : \E k \in 1..Len(ForeignKeyConstraints(t)) :
          Orphan(db, t, df[i], ForeignKeyConstraints(t)[k])

DeleteRejected(db, t) ==
    /\ ForeignKeysPragma
    /\ Range(PragmaForeignKeyCheck([db EXCEPT ![t] = <<>>]))
          # Range(PragmaForeignKeyCheck(db))

\* a writer's call: where it stands (idle, deleted, returned, raised), the
\* table, the DataFrame it writes (kept until the call raised) and the rows
\* the table held when the call began (kept until the call returned normally)
NoCall == [pc |-> "idle", table |-> "none", df |-> <<>>, prev |-> <<>>]
NoRet == [op |-> "none", table |-> "none", payload |-> "none", error |-> "none",
          rows |-> <<>>, errors |-> {}, warnings |-> {}, replaced |-> FALSE]

\* asset names that self.md does not hold, and asset names of views
UnregisteredNames == {"analysis"}
ViewNames == {"out_view", "other_view"}

\* __init__ / _setup_database on a fresh directory: md.create_all(engine)
\* creates every table of the schema, empty, and nothing else
StoreInit ==
    /\ store = [t \in TableNames |-> <<>>]
    /\ unregistered = [t \in UnregisteredNames |-> NULL]
    /\ views = [v \in ViewNames |-> NULL]
    /\ db_file = [exists |-> TRUE, engine |-> TRUE, tables |-> CreateAll]
    /\ call = [w \in Writers |-> NoCall]
    /\ ret = NoRet

\* (mutant) the old records are not removed before loading
HandleOutputAppendOnly(w, t, df) ==
    /\ call[w].pc # "deleted"
    /\ call' = [call EXCEPT ![w] =
                  [pc |-> "deleted", table |-> t, df |-> df, prev |-> store[t]]]
    /\ ret' = NoRet
    /\ UNCHANGED store
    /\ UNCHANGED <<aggVars, catalogVars>>

\* handle_output -> _handle_pandas_output, registered table, first statement:
\* con.execute(sa_table.delete()), committed on its own; it raises when the
\* database has no such table
HandleOutputDelete(w, t, df) ==
    /\ db_file.engine
    /\ call[w].pc # "deleted"
    /\ IF db_file.tables[t] = NULL
       THEN /\ call' = [call EXCEPT ![w] =
                          [pc |-> "raised", table |-> t, df |-> <<>>, prev |-> store[t]]]
            /\ ret' = [NoRet EXCEPT !.op = "handle_output", !.payload = "DataFrame", !.table = t,
                                    !.error = "OperationalError"]
            /\ UNCHANGED store
       ELSE IF DeleteRejected(store, t)
       THEN /\ call' = [call EXCEPT ![w] =
                          [pc |-> "raised", table |-> t, df |-> <<>>, prev |-> store[t]]]
            /\ ret' = [NoRet EXCEPT !.op = "handle_output", !.payload = "DataFrame", !.table = t,
                                    !.error = "IntegrityError"]
            /\ UNCHANGED store
       ELSE /\ store' = [store EXCEPT ![t] = <<>>]
            /\ call' = [call EXCEPT ![w] =
                          [pc |-> "deleted", table |-> t, df |-> df, prev |-> store[t]]]
            /\ ret' = NoRet
    /\ UNCHANGED <<aggVars, catalogVars>>

\* (mutant) the rows written with if_exists="replace": the table is dropped
\* and created again from the DataFrame, without its foreign keys
HandleOutputInsertReplace(w, fault) ==
    /\ call[w].pc = "deleted"
    /\ ~fault
    /\ LET t == call[w].table
           df == call[w].df
       IN /\ store' = [store EXCEPT ![t] = df]
          /\ db_file' = [db_file EXCEPT !.tables[t] =
                            <<[columns |-> Columns(t), foreign_keys |-> <<>>]>>]
          /\ call' = [call EXCEPT ![w].pc = "returned", ![w].prev = <<>>]
          /\ ret' = [NoRet EXCEPT !.op = "handle_output", !.payload = "DataFrame",
                                  !.table = t]
    /\ UNCHANGED <<aggVars, unregistered, views>>

\* second statement: df.to_sql(table_name, con, if_exists="append", ...), one
\* transaction: all rows are appended, or the INSERT raises (fault: a value
\* the table's constraints refuse, a locked or full database) and none is;
\* an empty DataFrame inserts nothing and cannot fail this way
HandleOutputInsert(w, fault) ==
    /\ call[w].pc = "deleted"
    /\ fault => call[w].df # <<>>
    /\ LET t == call[w].table
           df == call[w].df
       IN IF fault \/ InsertRejected(store, t, df)
          THEN /\ call' = [call EXCEPT ![w].pc = "raised", ![w].df = <<>>]
               /\ ret' = [NoRet EXCEPT !.op = "handle_output", !.payload = "DataFrame", !.table = t,
                              !.error = IF fault THEN "DatabaseError"
                                        ELSE "IntegrityError"]
               /\ UNCHANGED store
          ELSE /\ store' = [store EXCEPT ![t] = store[t] \o df]
               /\ call' = [call EXCEPT ![w].pc = "returned", ![w].prev = <<>>]
               /\ ret' = [NoRet EXCEPT !.op = "handle_output", !.payload = "DataFrame", !.table = t]
    /\ UNCHANGED <<aggVars, catalogVars>>

\* load_input: pd.read_sql_table on a connection of its own
LoadInput(t) ==
    /\ ret' = [NoRet EXCEPT !.op = "load_input", !.table = t, !.rows = store[t]]
    /\ UNCHANGED <<store, call>>
    /\ UNCHANGED <<aggVars, catalogVars>>

\* check_foreign_keys: returns None or raises ForeignKeyErrors
CheckForeignKeys ==
    /\ LET r == CheckForeignKeysResult(store)
       IN ret' = [NoRet EXCEPT !.op = "check_foreign_keys",
                               !.error = r.error, !.errors = r.errors]
    /\ UNCHANGED <<store, call>>
    /\ UNCHANGED <<aggVars, catalogVars>>

\* the output functions are not called in this specification
AggIdle ==
    /\ request = [fn |-> "none", freq |-> "None", all_na |-> "zero", recs |-> <<>>]
    /\ out_df = [status |-> "not_called", rows |-> <<>>]

Init == StoreInit /\ AggIdle

Next ==
    \/ \E w \in SeqWriters, t \in TableNames : \E df \in DataFrames(t) :
          HandleOutputDelete(w, t, df)
    \/ \E w \in SeqWriters, fault \in BOOLEAN : HandleOutputInsert(w, fault)
    \/ \E t \in TableNames : LoadInput(t)
    \/ CheckForeignKeys

Spec == Init /\ [][Next]_vars

(***************************************************************************)
(* Floating-point columns (src/pudl/outputs.py).  A float64 is modelled    *)
(* exactly, as a fraction n/d in lowest terms with d >= 0; rounding is not *)
(* modelled.  d = 0 gives the IEEE specials pandas produces instead of     *)
(* raising: 0/0 is NaN (the missing value), 1/0 is inf, -1/0 is -inf.      *)
(***************************************************************************)
RECURSIVE GCD(_, _)
GCD(a, b) == IF b = 0 THEN a ELSE GCD(b, a % b)

Abs(x) == IF x < 0 THEN -x ELSE x

Float(n, d) ==
    IF d = 0
    THEN [n |-> IF n > 0 THEN 1 ELSE IF n < 0 THEN -1 ELSE 0, d |-> 0]
    ELSE LET g == GCD(Abs(n), Abs(d))
             sgn == IF d < 0 THEN -1 ELSE 1
         IN [n |-> (sgn * n) \div g, d |-> Abs(d) \div g]

F(k) == Float(k, 1)
NaN == Float(0, 0)
Inf == Float(1, 0)
IsNaN(x) == x = NaN
IsFinite(x) == x.d # 0

\* Series * Series
Mul(a, b) == Float(a.n * b.n, a.d * b.d)

\* Series / Series: division by zero does not raise
Div(a, b) ==
    IF IsNaN(a) \/ IsNaN(b) THEN NaN ELSE Float(a.n * b.d, a.d * b.n)

Add(a, b) ==
    IF IsNaN(a) \/ IsNaN(b) THEN NaN
    ELSE IF a.d = 0 /\ b.d = 0 THEN (IF a.n = b.n THEN a ELSE NaN)
    ELSE IF a.d = 0 THEN a
    ELSE IF b.d = 0 THEN b
    ELSE Float(a.n * b.d + b.n * a.d, a.d * b.d)

RECURSIVE SumSkipNa(_)
SumSkipNa(s) ==
    IF s = <<>> THEN F(0)
    ELSE IF IsNaN(Head(s)) THEN SumSkipNa(Tail(s))
    ELSE Add(Head(s), SumSkipNa(Tail(s)))

\* groupby(...).agg({col: np.sum}): missing values are skipped.  The sum of
\* a group whose values are all missing is 0.0 in pandas >= 0.22 and NaN in
\* the pandas releases before it: all_na is the build's answer.
NpSum(s, all_na) ==
    IF all_na = "nan" /\ \A i \in 1..Len(s) : IsNaN(s[i])
    THEN NaN
    ELSE SumSkipNa(s)

(***************************************************************************)
(* DataFrames of the output functions: a sequence of rows, a row a         *)
(* function from column names to values.  Identifier columns read from the *)
(* store are integers, measures are floats, text is <<s>> or NULL, a date  *)
(* is [y, m] (the data is monthly).                                        *)
(***************************************************************************)
Str(x) == <<x>>
Date(y, m) == [y |-> y, m |-> m]

\* the label pd.Grouper(freq=freq) gives the bucket of a date
Bucket(date, freq) ==
    IF freq = "YS" THEN Date(date.y, 1) ELSE date

\* alphabetical order of the text values that occur in grouping keys
StringOrder == <<"b1", "b2", "coal", "g1", "g2", "gas">>

\* how a column holds its values: text is <<s>> or NULL, a date is never
\* missing, every other column is a float
TextColumns == {"aer_fuel_category", "energy_source_simple", "fuel_group",
                "fuel_type_simple", "boiler_id", "generator_id", "plant_name",
                "operator_name"}
DateColumns == {"report_date"}

Rank(c, v) ==
    IF c \in DateColumns THEN v.y * 12 + v.m
    ELSE IF c \in TextColumns
         THEN CHOOSE i \in 1..Len(StringOrder) : StringOrder[i] = v[1]
    ELSE v.n

\* k1 sorts before k2: lexicographic along the columns of by
RECURSIVE KeyLess(_, _, _)
KeyLess(k1, k2, by) ==
    /\ by # <<>>
    /\ LET c == Head(by)
       IN \/ Rank(c, k1[c]) < Rank(c, k2[c])
          \/ Rank(c, k1[c]) = Rank(c, k2[c]) /\ KeyLess(k1, k2, Tail(by))

RECURSIVE SortKeys(_, _)
SortKeys(S, by) ==
    IF S = {} THEN <<>>
    ELSE LET k == CHOOSE x \in S : \A o \in S : o = x \/ KeyLess(x, o, by)
         IN <<k>> \o SortKeys(S \ {k}, by)

\* the group key of a row: its by columns and, after
\* set_index(pd.DatetimeIndex(report_date)), the bucket of its date
GroupKey(row, by, freq) ==
    [c \in Range(by) |->
        IF c = "report_date" THEN Bucket(row[c], freq) ELSE row[c]]

IsMissing(c, v) ==
    IF c \in TextColumns THEN v = NULL
    ELSE IF c \in DateColumns THEN FALSE
    ELSE v = NaN

\* (mutant) rows with a missing value in any column are dropped
DropnaAnyColumn(df, subset) ==
    LET Complete(row) == \A c \in DOMAIN row : ~IsMissing(c, row[c])
    IN SelectSeq(df, Complete)

\* df.dropna(subset=subset)
Dropna(df, subset) ==
    LET Complete(row) == \A c \in subset : ~IsMissing(c, row[c])
    IN SelectSeq(df, Complete)

\* df.groupby(by=by).agg({c: np.sum for c in sums}).reset_index(): one row
\* per group, in key order, holding the key and the sum of each column; a
\* row with a missing key value belongs to no group
GroupByAggSum(df, by, freq, sums, all_na) ==
    LET keyed == Dropna(df, Range(by))
        keys == SortKeys({GroupKey(keyed[i], by, freq) : i \in 1..Len(keyed)}, by)
        group(k) == LET In(row) == GroupKey(row, by, freq) = k
                    IN SelectSeq(keyed, In)
    IN [j \in 1..Len(keys) |->
          [c \in Range(by) \cup sums |->
              IF c \in Range(by) THEN keys[j][c]
              ELSE NpSum([i \in 1..Len(group(keys[j])) |-> group(keys[j])[i][c]],
                         all_na)]]

\* df[c] = df[a] * df[b], row by row
WithProduct(df, c, a, b) ==
    [i \in 1..Len(df) |-> (c :> Mul(df[i][a], df[i][b])) @@ df[i]]

\* df[c] = df[a] / df[b], row by row
WithQuotient(df, c, a, b) ==
    [i \in 1..Len(df) |-> (c :> Div(df[i][a], df[i][b])) @@ df[i]]

\* df.drop(cols, axis=1)
DropColumns(df, cols) ==
    [i \in 1..Len(df) |-> [c \in (DOMAIN df[i]) \ cols |-> df[i][c]]]

\* df[c] = df[c].astype(int) for c in cols: a float column becomes an
\* integer column (truncating); a missing or infinite value raises
AsTypeIntRaises(df, cols) ==
    \E i \in 1..Len(df) : \E c \in cols : ~IsFinite(df[i][c])

AsTypeInt(df, cols) ==
    [i \in 1..Len(df) |->
        [c \in DOMAIN df[i] |->
            IF c \in cols THEN df[i][c].n \div df[i][c].d ELSE df[i][c]]]

(***************************************************************************)
(* The store the output functions read                                     *)
(***************************************************************************)

\* plants_utils_eia(pudl_engine): one row per plant and year for which the
\* EIA 860 plant, its operator and both PUDL ids are all known (it ends with
\* out_df.dropna()).  Plant 1 is resolved for 2011; plant 2 is not.
PlantsUtilsEia ==
    << [report_date |-> Date(2011, 1), plant_id |-> F(1),
        plant_name |-> Str("p1"), operator_id |-> F(7),
        operator_name |-> Str("u7"), util_id_pudl |-> F(70),
        plant_id_pudl |-> F(10)] >>

PuColumns == {"plant_name", "operator_id", "operator_name",
              "util_id_pudl", "plant_id_pudl"}

\* analysis.merge_on_date_year(df_date, df_year, on=["plant_id"]): each row of
\* df_date with the columns of the df_year row of the same plant and the
\* same calendar year, missing where there is none
MergeOnDateYear(df_date, df_year) ==
    [i \in 1..Len(df_date) |->
        LET row == df_date[i]
            m == {j \in 1..Len(df_year) :
                    /\ df_year[j].plant_id = row.plant_id
                    /\ df_year[j].report_date.y = row.report_date.y}
        IN [c \in PuColumns |->
               IF m = {} THEN (IF c \in TextColumns THEN NULL ELSE NaN)
               ELSE df_year[CHOOSE j \in m : TRUE][c]] @@ row]

\* the (plant, fuel, sub-entity, month) a record is reported for
RecordKeys ==
    { [plant_id |-> F(1), fuel |-> Str("coal"), boiler_id |-> Str("b1"),
       report_date |-> Date(2011, 1)],
      [plant_id |-> F(1), fuel |-> Str("coal"), boiler_id |-> Str("b1"),
       report_date |-> Date(2011, 2)],
      [plant_id |-> F(1), fuel |-> Str("gas"), boiler_id |-> Str("b2"),
       report_date |-> Date(2011, 1)],
      [plant_id |-> F(2), fuel |-> Str("coal"), boiler_id |-> Str("b1"),
       report_date |-> Date(2012, 1)] }

\* generation_fuel_eia923: (fuel_consumed_total, fuel_mmbtu_per_unit,
\* fuel_consumed_total_mmbtu) as reported
GfMeasures ==
    { <<F(1), F(2), F(2)>>, <<F(2), F(3), F(6)>>, <<F(0), F(2), F(0)>>,
      <<F(0), F(2), F(4)>>, <<NaN, F(2), NaN>>, <<F(2), NaN, F(4)>> }

GfRecords ==
    { [plant_id |-> k.plant_id, aer_fuel_category |-> k.fuel,
       report_date |-> k.report_date,
       fuel_consumed_total |-> v[1],
       fuel_consumed_for_electricity |-> v[1],
       fuel_mmbtu_per_unit |-> v[2],
       fuel_consumed_total_mmbtu |-> v[3],
       fuel_consumed_for_electricity_mmbtu |-> v[3],
       net_generation_mwh |-> F(5)] : k \in RecordKeys, v \in GfMeasures }

\* fuel_receipts_costs_eia923: (fuel_quantity, heat_content_mmbtu_per_unit,
\* fuel_cost_per_mmbtu, sulfur_content_pct, ash_content_pct,
\* mercury_content_ppm)
FrcMeasures ==
    { <<F(1), F(2), F(3), F(1), F(2), F(3)>>,
      <<F(2), F(1), F(1), F(3), F(1), F(1)>>,
      <<F(0), F(2), F(3), F(2), F(2), F(2)>>,
      <<NaN, F(2), F(3), F(1), F(1), F(1)>>,
      <<F(2), F(2), F(3), NaN, F(1), NaN>>,
      <<F(1), F(0), F(3), F(1), F(1), F(1)>>,
      <<F(3), F(2), NaN, F(2), NaN, F(0)>> }

FrcRecords ==
    { [plant_id |-> k.plant_id, energy_source_simple |-> k.fuel,
       fuel_group |-> k.fuel, report_date |-> k.report_date,
       fuel_quantity |-> v[1],
       heat_content_mmbtu_per_unit |-> v[2],
       fuel_cost_per_mmbtu |-> v[3],
       sulfur_content_pct |-> v[4],
       ash_content_pct |-> v[5],
       mercury_content_ppm |-> v[6]] : k \in RecordKeys, v \in FrcMeasures }

\* boiler_fuel_eia923: (fuel_qty_consumed, fuel_mmbtu_per_unit,
\* sulfur_content_pct, ash_content_pct)
BfMeasures ==
    { <<F(1), F(2), F(1), F(2)>>, <<F(2), F(1), F(3), F(1)>>,
      <<F(0), F(2), F(2), F(2)>>, <<NaN, F(2), F(1), F(1)>>,
      <<F(2), F(2), NaN, F(1)>>, <<F(3), NaN, F(2), NaN>> }

BfRecords ==
    { [plant_id |-> k.plant_id, boiler_id |-> k.boiler_id,
       fuel_type_simple |-> k.fuel, report_date |-> k.report_date,
       fuel_qty_consumed |-> v[1],
       fuel_mmbtu_per_unit |-> v[2],
       sulfur_content_pct |-> v[3],
       ash_content_pct |-> v[4]] : k \in RecordKeys, v \in BfMeasures }

(***************************************************************************)
(* The aggregating EIA 923 outputs.  freq is "None" (no aggregation) or a  *)
(* pandas offset alias; the calls are made without date bounds.  The       *)
(* re-ordering of the columns (organize_cols) changes no row.              *)
(***************************************************************************)
Returned(df) == [status |-> "returned", rows |-> df]
Raised == [status |-> "raised", rows |-> <<>>]
NotCalled == [status |-> "not_called", rows |-> <<>>]

\* the closing "Clean up the types of a few columns..."
CleanUpTypes(df, cols) ==
    IF AsTypeIntRaises(df, cols) THEN Raised ELSE Returned(AsTypeInt(df, cols))

\* generation_fuel_eia923, lines 438-456: the aggregation
GfAggregate(gf_df, freq, all_na) ==
    LET by == <<"plant_id", "aer_fuel_category", "report_date">>
        gf_gb == GroupByAggSum(gf_df, by, freq,
                    {"fuel_consumed_total", "fuel_consumed_for_electricity",
                     "fuel_consumed_total_mmbtu",
                     "fuel_consumed_for_electricity_mmbtu",
                     "net_generation_mwh"}, all_na)
    IN WithQuotient(gf_gb, "fuel_mmbtu_per_unit",
        "fuel_consumed_total_mmbtu", "fuel_consumed_total")

generation_fuel_eia923(recs, freq, all_na) ==
    LET gf_df == IF freq = "None" THEN recs ELSE GfAggregate(recs, freq, all_na)
        pu_eia == PlantsUtilsEia
        out_df1 == MergeOnDateYear(gf_df, pu_eia)
        out_df2 == Dropna(out_df1, {"plant_id", "plant_id_pudl", "plant_name",
                                    "operator_id", "util_id_pudl", "operator_name"})
    IN CleanUpTypes(out_df2, {"plant_id", "plant_id_pudl", "operator_id",
                              "util_id_pudl"})

\* fuel_receipts_costs_eia923, lines 558-562: the totals commonly needed
FrcTotals(frc_df) ==
    LET t1 == WithProduct(frc_df, "total_heat_content_mmbtu",
        "heat_content_mmbtu_per_unit", "fuel_quantity")
    IN WithProduct(t1, "total_fuel_cost",
        "total_heat_content_mmbtu", "fuel_cost_per_mmbtu")

\* (mutant) the content fractions averaged per record, not weighted by quantity
FrcAggregateMean(frc_df, freq, all_na) ==
    LET by == <<"plant_id", "energy_source_simple", "report_date">>
        t0 == [i \in 1..Len(frc_df) |-> ("n_records" :> F(1)) @@ frc_df[i]]
        frc_gb == GroupByAggSum(t0, by, freq,
                     {"fuel_quantity", "total_heat_content_mmbtu",
                      "total_fuel_cost", "sulfur_content_pct", "ash_content_pct",
                      "mercury_content_ppm", "n_records"}, all_na)
        f1 == WithQuotient(frc_gb, "fuel_cost_per_mmbtu",
            "total_fuel_cost", "total_heat_content_mmbtu")
        f2 == WithQuotient(f1, "heat_content_mmbtu_per_unit",
            "total_heat_content_mmbtu", "fuel_quantity")
        f3 == WithQuotient(f2, "sulfur_content_pct",
            "sulfur_content_pct", "n_records")
        f4 == WithQuotient(f3, "ash_content_pct",
            "ash_content_pct", "n_records")
        f5 == WithQuotient(f4, "mercury_content_ppm",
            "mercury_content_ppm", "n_records")
    IN DropColumns(f5, {"n_records"})

\* fuel_receipts_costs_eia923, lines 564-600: the aggregation
FrcAggregate(frc_df, freq, all_na) ==
    LET by == <<"plant_id", "energy_source_simple", "report_date">>
        t1 == WithProduct(frc_df, "total_ash_content",
            "ash_content_pct", "fuel_quantity")
        t2 == WithProduct(t1, "total_sulfur_content",
            "sulfur_content_pct", "fuel_quantity")
        t3 == WithProduct(t2, "total_mercury_content",
            "mercury_content_ppm", "fuel_quantity")
        frc_gb == GroupByAggSum(t3, by, freq,
                     {"fuel_quantity", "total_heat_content_mmbtu",
                      "total_fuel_cost", "total_sulfur_content",
                      "total_ash_content", "total_mercury_content"}, all_na)
        f1 == WithQuotient(frc_gb, "fuel_cost_per_mmbtu",
            "total_fuel_cost", "total_heat_content_mmbtu")
        f2 == WithQuotient(f1, "heat_content_mmbtu_per_unit",
            "total_heat_content_mmbtu", "fuel_quantity")
        f3 == WithQuotient(f2, "sulfur_content_pct",
            "total_sulfur_content", "fuel_quantity")
        f4 == WithQuotient(f3, "ash_content_pct",
            "total_ash_content", "fuel_quantity")
        f5 == WithQuotient(f4, "mercury_content_ppm",
            "total_mercury_content", "fuel_quantity")
    IN DropColumns(f5, {"total_ash_content", "total_sulfur_content",
                        "total_mercury_content"})

fuel_receipts_costs_eia923(recs, freq, all_na) ==
    LET frc_df0 == FrcTotals(recs)
        frc_df == IF freq = "None" THEN frc_df0
                  ELSE FrcAggregate(frc_df0, freq, all_na)
        pu_eia == PlantsUtilsEia
        out_df1 == MergeOnDateYear(frc_df, pu_eia)
        out_df2 == Dropna(out_df1, {"operator_id", "operator_name"})
        out_df3 == IF freq = "None" THEN Dropna(out_df2, {"fuel_group"})
                   ELSE out_df2
    IN CleanUpTypes(out_df3, {"plant_id", "plant_id_pudl", "operator_id",
                              "util_id_pudl"})

\* (mutant) the re-derived fields divided by the summed heat content instead
\* of the summed quantity
BfAggregateWrongDenominator(bf_df, freq, all_na) ==
    LET by == <<"plant_id", "boiler_id", "fuel_type_simple", "report_date">>
        t1 == WithProduct(bf_df, "total_sulfur_content",
            "fuel_qty_consumed", "sulfur_content_pct")
        t2 == WithProduct(t1, "total_ash_content",
            "fuel_qty_consumed", "ash_content_pct")
        bf_gb == GroupByAggSum(t2, by, freq,
                    {"total_heat_content_mmbtu", "fuel_qty_consumed",
                     "total_sulfur_content", "total_ash_content"}, all_na)
        f1 == WithQuotient(bf_gb, "fuel_mmbtu_per_unit",
            "total_heat_content_mmbtu", "fuel_qty_consumed")
        f2 == WithQuotient(f1, "sulfur_content_pct",
            "total_sulfur_content", "total_heat_content_mmbtu")
        f3 == WithQuotient(f2, "ash_content_pct",
            "total_ash_content", "total_heat_content_mmbtu")
    IN DropColumns(f3, {"total_ash_content", "total_sulfur_content"})

\* boiler_fuel_eia923, lines 686-714: the aggregation
BfAggregate(bf_df, freq, all_na) ==
    LET by == <<"plant_id", "boiler_id", "fuel_type_simple", "report_date">>
        t1 == WithProduct(bf_df, "total_sulfur_content",
            "fuel_qty_consumed", "sulfur_content_pct")
        t2 == WithProduct(t1, "total_ash_content",
            "fuel_qty_consumed", "ash_content_pct")
        bf_gb == GroupByAggSum(t2, by, freq,
                    {"total_heat_content_mmbtu", "fuel_qty_consumed",
                     "total_sulfur_content", "total_ash_content"}, all_na)
        f1 == WithQuotient(bf_gb, "fuel_mmbtu_per_unit",
            "total_heat_content_mmbtu", "fuel_qty_consumed")
        f2 == WithQuotient(f1, "sulfur_content_pct",
            "total_sulfur_content", "fuel_qty_consumed")
        f3 == WithQuotient(f2, "ash_content_pct",
            "total_ash_content", "fuel_qty_consumed")
    IN DropColumns(f3, {"total_ash_content", "total_sulfur_content"})

boiler_fuel_eia923(recs, freq, all_na) ==
    LET bf_df0 == WithProduct(recs, "total_heat_content_mmbtu",
        "fuel_qty_consumed", "fuel_mmbtu_per_unit")
        bf_df == IF freq = "None" THEN bf_df0
                 ELSE BfAggregate(bf_df0, freq, all_na)
        pu_eia == PlantsUtilsEia
        out_df1 == MergeOnDateYear(bf_df, pu_eia)
        out_df2 == Dropna(out_df1, {"plant_id", "plant_id_pudl", "operator_id",
                                    "util_id_pudl", "boiler_id"})
    IN CleanUpTypes(out_df2, {"operator_id", "util_id_pudl", "plant_id_pudl"})

Freqs == {"None", "MS", "YS"}
AllNaSums == {"zero", "nan"}
OutputFunctions == {"generation_fuel_eia923", "fuel_receipts_costs_eia923",
                    "boiler_fuel_eia923"}

RecordsOf(fn) ==
    CASE fn = "generation_fuel_eia923" -> GfRecords
      [] fn = "fuel_receipts_costs_eia923" -> FrcRecords
      [] fn = "boiler_fuel_eia923" -> BfRecords

\* an output function is about to be called on a store holding recs
InitAgg ==
    /\ StoreInit
    /\ \E fn \in OutputFunctions, freq \in Freqs, all_na \in AllNaSums :
          \E recs \in SeqsUpTo(RecordsOf(fn), MaxRecs) :
             request = [fn |-> fn, freq |-> freq, all_na |-> all_na, recs |-> recs]
    /\ out_df = NotCalled

CallGenerationFuelEia923 ==
    /\ request.fn = "generation_fuel_eia923"
    /\ out_df = NotCalled
    /\ out_df' = generation_fuel_eia923(request.recs, request.freq, request.all_na)
    /\ UNCHANGED <<request, store, call, ret, catalogVars>>

CallFuelReceiptsCostsEia923 ==
    /\ request.fn = "fuel_receipts_costs_eia923"
    /\ out_df = NotCalled
    /\ out_df' = fuel_receipts_costs_eia923(request.recs, request.freq, request.all_na)
    /\ UNCHANGED <<request, store, call, ret, catalogVars>>

CallBoilerFuelEia923 ==
    /\ request.fn = "boiler_fuel_eia923"
    /\ out_df = NotCalled
    /\ out_df' = boiler_fuel_eia923(request.recs, request.freq, request.all_na)
    /\ UNCHANGED <<request, store, call, ret, catalogVars>>

NextAgg ==
    \/ CallGenerationFuelEia923
    \/ CallFuelReceiptsCostsEia923
    \/ CallBoilerFuelEia923

SpecAgg == InitAgg /\ [][NextAgg]_vars

(***************************************************************************)
(* Claims about the storage loader and the integrity verifier (Spec)       *)
(***************************************************************************)

\* the rows PRAGMA foreign_key_check returns on the store as it stands
Violations == PragmaForeignKeyCheck(store)

ConstraintOf(t, id) ==
    LET fks == ForeignKeyConstraints(t)
    IN fks[CHOOSE k \in 1..Len(fks) : fks[k].id = id]

\* C1: a handle_output call that fails after the old rows were deleted leaves
\* the table holding the rows it held before the call.
C1_FailedCallKeepsRows ==
    \A w \in Writers :
        call[w].pc = "raised" => store[call[w].table] = call[w].prev

\* C2: while handle_output replaces the rows of a table, a reader on another
\* connection sees either the previous dataset or the new one, never the
\* deleted-but-not-yet-inserted table.
C2_ReaderSeesOldOrNew ==
    \A w \in Writers :
        (ret.op = "load_input" /\ call[w].pc = "deleted"
            /\ ret.table = call[w].table)
        => ret.rows \in {call[w].prev, call[w].df}

\* C3: check_foreign_keys reports the violations of each constraint as an
\* entry of its own, whose foreign_key lists the referenced columns of that
\* constraint only, also when two constraints of a child share a parent.
C3_ConstraintsNotMerged ==
    ret.op = "check_foreign_keys" =>
        \A i \in 1..Len(Violations) :
            LET e == Violations[i]
                Same(v) == v.table = e.table /\ v.fkid = e.fkid
                own == SelectSeq(Violations, Same)
            IN \E err \in ret.errors :
                  /\ err.child_table = e.table
                  /\ err.parent_table = e.parent
                  /\ err.foreign_key = ConstraintOf(e.table, e.fkid).to
                  /\ err.rowids = [j \in 1..Len(own) |-> own[j].rowid]

\* C4: the raised ForeignKeyErrors carries every row of the foreign-key
\* check: each row's rowid is in the rowids of exactly one entry (that of its
\* child and parent table), and an entry holds as many rowids as the check
\* returned rows for it, each of them one the check returned.
C4_AllViolationsReported ==
    ret.op = "check_foreign_keys" =>
        /\ \A i \in 1..Len(Violations) :
              Cardinality({err \in ret.errors :
                  /\ err.child_table = Violations[i].table
                  /\ err.parent_table = Violations[i].parent
                  /\ Violations[i].rowid \in Range(err.rowids)}) = 1
        /\ \A err \in ret.errors :
              LET Mine(v) == v.table = err.child_table /\ v.parent = err.parent_table
                  mine == SelectSeq(Violations, Mine)
              IN /\ Len(err.rowids) = Len(mine)
                 /\ Range(err.rowids) = {mine[j].rowid : j \in 1..Len(mine)}

C4_Witness ==
    /\ ret.op = "check_foreign_keys"
    /\ Cardinality(ret.errors) >= 2
    /\ \E err \in ret.errors : Cardinality(Range(err.rowids)) >= 2

\* C5: check_foreign_keys raises exactly when the foreign-key check returns a
\* row; with none it returns normally and reports nothing, with exactly one
\* it reports one entry naming that row's child and parent table and holding
\* exactly its rowid.
C5_RaisesIffOrphan ==
    ret.op = "check_foreign_keys" =>
        /\ (ret.error = "ForeignKeyErrors") <=> (Violations # <<>>)
        /\ Violations = <<>> => (ret.error = "none" /\ ret.errors = {})
        /\ Len(Violations) = 1 =>
              \E err \in ret.errors :
                  /\ ret.errors = {err}
                  /\ err.child_table = Violations[1].table
                  /\ err.parent_table = Violations[1].parent
                  /\ err.rowids = <<Violations[1].rowid>>

C5_Witness ==
    /\ ret.op = "check_foreign_keys"
    /\ ret.error = "ForeignKeyErrors"
    /\ Len(Violations) = 1

\* C6: handle_output never refuses a write because of a foreign key: rows
\* whose parent is not loaded are stored as given, and only
\* check_foreign_keys ever reports a foreign-key violation.
C6_NoEnforcementDuringLoad ==
    /\ ret.op = "handle_output" => ret.error # "IntegrityError"
    /\ \A w \in SeqWriters :
          (ret.op = "handle_output" /\ call[w].pc = "returned")
          => store[call[w].table] = call[w].df
    /\ ret.error = "ForeignKeyErrors" => ret.op = "check_foreign_keys"

C6_Witness ==
    /\ ret.op = "handle_output"
    /\ ret.error = "none"
    /\ ret.table = "child"
    /\ store["parent"] = <<>>
    /\ \E i \in 1..Len(Violations) : Violations[i].parent = "parent"

\* C7: after a successful handle_output of a DataFrame for a table, whatever
\* was written to it before, load_input of the table returns exactly the rows
\* of that DataFrame.
C7_LoadReturnsWhatWasWritten ==
    \A w \in SeqWriters :
        (ret.op = "load_input" /\ call[w].pc = "returned"
            /\ ret.table = call[w].table)
        => ret.rows = call[w].df

C7_Witness ==
    /\ ret.op = "load_input"
    /\ call["w1"].pc = "returned"
    /\ ret.table = call["w1"].table
    /\ Len(ret.rows) = MaxRows
    /\ ret.rows[1] # ret.rows[MaxRows]

(***************************************************************************)
(* Claims about the aggregating outputs (SpecAgg)                          *)
(***************************************************************************)
Aggregated == out_df.status = "returned" /\ request.freq # "None"

OutRows == {out_df.rows[i] : i \in 1..Len(out_df.rows)}

\* the text columns of the grouping key of the called function
KeyText ==
    CASE request.fn = "generation_fuel_eia923" -> {"aer_fuel_category"}
      [] request.fn = "fuel_receipts_costs_eia923" -> {"energy_source_simple"}
      [] request.fn = "boiler_fuel_eia923" -> {"boiler_id", "fuel_type_simple"}
      [] OTHER -> {}

PlantIdOf(row) ==
    IF request.fn = "boiler_fuel_eia923" THEN row.plant_id.n ELSE row.plant_id

\* the records of the store that fall in the (key tuple, time bucket) of an
\* aggregated row
GroupOf(row) ==
    LET In(rec) == /\ rec.plant_id.n = PlantIdOf(row)
                   /\ \A c \in KeyText : rec[c] = row[c]
                   /\ Bucket(rec.report_date, request.freq) = row.report_date
    IN SelectSeq(request.recs, In)

\* the quantity column a content fraction is weighted by
QuantityColumn ==
    IF request.fn = "boiler_fuel_eia923" THEN "fuel_qty_consumed"
    ELSE "fuel_quantity"

ContentFractions ==
    CASE request.fn = "fuel_receipts_costs_eia923" ->
            {"sulfur_content_pct", "ash_content_pct", "mercury_content_ppm"}
      [] request.fn = "boiler_fuel_eia923" ->
            {"sulfur_content_pct", "ash_content_pct"}
      [] OTHER -> {}

\* the measures of the modelled stores are whole numbers: plain integer sums
RECURSIVE IntSum(_)
IntSum(s) == IF s = <<>> THEN 0 ELSE Head(s) + IntSum(Tail(s))

Present(recs, c) == \A i \in 1..Len(recs) : IsFinite(recs[i][c])

\* C8: with a frequency, each content fraction of an aggregated row of
\* fuel_receipts_costs_eia923 and boiler_fuel_eia923 is
\* sum(fraction_i * quantity_i) / sum(quantity_i) over the records of its
\* group (the sums being pandas sums), not the mean of the fractions: where
\* every record carries the fraction and the quantity and the quantities do
\* not sum to zero, value * sum(q_i) = sum(f_i * q_i).
C8_QuantityWeightedFractions ==
    (Aggregated /\ ContentFractions # {}) =>
        \A row \in OutRows : \A c \in ContentFractions :
            LET g == GroupOf(row)
                q == QuantityColumn
                products == [i \in 1..Len(g) |-> Mul(g[i][c], g[i][q])]
                quantities == [i \in 1..Len(g) |-> g[i][q]]
                sum_q == IntSum([i \in 1..Len(g) |-> g[i][q].n])
                sum_fq == IntSum([i \in 1..Len(g) |-> g[i][c].n * g[i][q].n])
            IN /\ row[c] = Div(NpSum(products, request.all_na),
                               NpSum(quantities, request.all_na))
               /\ (Present(g, c) /\ Present(g, q) /\ sum_q # 0) =>
                     /\ IsFinite(row[c])
                     /\ row[c].n * sum_q = row[c].d * sum_fq

\* two complete records of different quantity and fraction in one bucket:
\* the weighted average is not the mean
C8_Witness ==
    /\ Aggregated
    /\ request.fn = "fuel_receipts_costs_eia923"
    /\ \E row \in OutRows :
          LET g == GroupOf(row)
          IN /\ Len(g) = 2
             /\ Present(g, "sulfur_content_pct") /\ Present(g, "fuel_quantity")
             /\ g[1].fuel_quantity # g[2].fuel_quantity
             /\ g[1].sulfur_content_pct # g[2].sulfur_content_pct
             /\ row.sulfur_content_pct
                   # Div(Add(g[1].sulfur_content_pct, g[2].sulfur_content_pct), F(2))

\* the re-derived ratio fields of the called function, each with the column
\* of the aggregated row that holds its summed denominator
RatioFields ==
    CASE request.fn = "generation_fuel_eia923" ->
            { <<"fuel_mmbtu_per_unit", "fuel_consumed_total">> }
      [] request.fn = "fuel_receipts_costs_eia923" ->
            { <<"fuel_cost_per_mmbtu", "total_heat_content_mmbtu">>,
              <<"heat_content_mmbtu_per_unit", "fuel_quantity">>,
              <<"sulfur_content_pct", "fuel_quantity">>,
              <<"ash_content_pct", "fuel_quantity">>,
              <<"mercury_content_ppm", "fuel_quantity">> }
      [] request.fn = "boiler_fuel_eia923" ->
            { <<"fuel_mmbtu_per_unit", "fuel_qty_consumed">>,
              <<"sulfur_content_pct", "fuel_qty_consumed">>,
              <<"ash_content_pct", "fuel_qty_consumed">> }
      [] OTHER -> {}

\* C9: in every aggregating output, a ratio whose summed denominator is zero
\* for a bucket is a missing value, whatever the summed numerator, and the
\* call does not fail.
C9_ZeroDenominatorIsMissing ==
    /\ (request.freq # "None") => out_df.status # "raised"
    /\ Aggregated =>
          \A row \in OutRows : \A rf \in RatioFields :
              row[rf[2]] = F(0) => IsNaN(row[rf[1]])

\* the weight a record gives to a ratio field: the denominator it adds
WeightOf(rec, field) ==
    IF request.fn = "generation_fuel_eia923" THEN rec.fuel_consumed_total
    ELSE IF field = "fuel_cost_per_mmbtu"
         THEN Mul(rec.heat_content_mmbtu_per_unit, rec.fuel_quantity)
    ELSE rec[QuantityColumn]

C22_SameRecordsInBothSums ==
    (Aggregated /\ ContentFractions # {}) =>
        \A row \in OutRows : \A c \in ContentFractions :
            LET q == QuantityColumn
                Has(rec) == IsFinite(rec[c]) /\ IsFinite(rec[q])
                h == SelectSeq(GroupOf(row), Has)
                sum_q == IntSum([i \in 1..Len(h) |-> h[i][q].n])
                sum_fq == IntSum([i \in 1..Len(h) |-> h[i][c].n * h[i][q].n])
            IN (h # <<>> /\ sum_q # 0) =>
                  /\ IsFinite(row[c])
                  /\ row[c].n * sum_q = row[c].d * sum_fq

(***************************************************************************)
(* The entity outputs (src/pudl/outputs.py): tables joined to the plant    *)
(* and utility tables.  A table read through pudl_engine is a sequence of  *)
(* rows; the re-ordering of the columns (organize_cols) changes no row.    *)
(***************************************************************************)
MissingOf(c) == IF c \in TextColumns THEN NULL ELSE NaN

\* pd.merge(left, right, how=how, on=on): each left row with the columns
\* right_cols of every right row equal to it on the columns on, in left
\* order; a left row without match is dropped (how = "inner", the default)
\* or kept with missing values (how = "left")
Merge(left, right, on, how, right_cols) ==
    Flatten([i \in 1..Len(left) |->
        LET Match(r) == \A c \in on : r[c] = left[i][c]
            m == SelectSeq(right, Match)
        IN IF m = <<>>
           THEN IF how = "left"
                THEN << [c \in right_cols |-> MissingOf(c)] @@ left[i] >>
                ELSE <<>>
           ELSE [j \in 1..Len(m) |-> [c \in right_cols |-> m[j][c]] @@ left[i]] ])

\* the dtype of an identifier column that a merge brought in: int64 as read
\* from the store, float64 once a missing value was filled in
SurrogateIds == {"util_id_pudl", "plant_id_pudl"}

DtypeOf(df, c) ==
    IF \E i \in 1..Len(df) : IsNaN(df[i][c]) THEN "float64" ELSE "int64"

ReturnedTyped(df, ids) ==
    [status |-> "returned", rows |-> df, dtypes |-> [c \in ids |-> DtypeOf(df, c)]]

\* plants_utils_ferc1, lines 172-183
plants_utils_ferc1(db) ==
    Merge(db.plants_ferc, db.utilities_ferc, {"respondent_id"}, "inner",
          {"util_id_pudl"})

\* utilities_eia860, lines 191-216
utilities_eia860(db) ==
    LET out_df1 == Merge(db.utilities_eia860, db.utilities_eia,
                         {"operator_id"}, "left", {"util_id_pudl"})
    IN ReturnedTyped(out_df1, {"util_id_pudl"})

\* plants_eia860, lines 219-257
plants_eia860(db) ==
    LET out_df1 == Merge(db.plants_eia860, db.plants_eia,
                         {"plant_id"}, "left", {"plant_id_pudl"})
        out_df2 == Merge(out_df1, db.utilities_eia,
                         {"operator_id"}, "left", {"util_id_pudl"})
    IN ReturnedTyped(out_df2, SurrogateIds)

\* generators_eia860, lines 260-327
generators_eia860(db) ==
    LET out_df1 == Merge(db.generators_eia860, db.plants_eia860,
                         {"report_date", "plant_id"}, "left", {"operator_id"})
        out_df2 == Merge(out_df1, db.utilities_eia,
                         {"operator_id"}, "inner", {"util_id_pudl"})
        out_df3 == Merge(out_df2, db.plants_eia,
                         {"plant_id"}, "left", {"plant_id_pudl"})
    IN ReturnedTyped(out_df3, SurrogateIds)

\* plants_steam_ferc1, lines 834-866
plants_steam_ferc1(db) ==
    LET pu_ferc == plants_utils_ferc1(db)
        out_df1 == Merge(db.plants_steam_ferc1, pu_ferc,
                         {"respondent_id", "plant_name"}, "inner", SurrogateIds)
    IN ReturnedTyped(out_df1, SurrogateIds)

\* fuel_ferc1, lines 869-920
fuel_ferc1(db) ==
    LET f1 == WithProduct(db.fuel_ferc1, "fuel_consumed_total_mmbtu",
                          "fuel_qty_burned", "fuel_avg_mmbtu_per_unit")
        f2 == WithProduct(f1, "fuel_consumed_total_cost_mmbtu",
                          "fuel_cost_per_mmbtu", "fuel_consumed_total_mmbtu")
        f3 == WithProduct(f2, "fuel_consumed_total_cost_unit",
                          "fuel_cost_per_unit_burned", "fuel_qty_burned")
        pu_ferc == plants_utils_ferc1(db)
        out_df1 == Merge(f3, pu_ferc,
                         {"respondent_id", "plant_name"}, "inner", SurrogateIds)
    IN ReturnedTyped(out_df1, SurrogateIds)

\* the stores the entity outputs read: the plant and utility tables hold
\* some of the plants and utilities the fact tables name
RECURSIVE Pick(_, _, _)
Pick(s, I, k) ==
    IF k > Len(s) THEN <<>>
    ELSE (IF k \in I THEN <<s[k]>> ELSE <<>>) \o Pick(s, I, k + 1)

SubSequences(s) == {Pick(s, I, 1) : I \in SUBSET (1..Len(s))}

FactTables(rows) == {q \in SeqsUpTo(rows, MaxRecs) : NoRepeats(q)}

UtilitiesEia ==
    SubSequences(<< [operator_id |-> F(7), util_id_pudl |-> F(70)],
                    [operator_id |-> F(8), util_id_pudl |-> F(80)] >>)

PlantsEia == SubSequences(<< [plant_id |-> F(1), plant_id_pudl |-> F(10)] >>)

PlantsEia860Rows ==
    { [report_date |-> Date(2011, 1), plant_id |-> F(p), operator_id |-> F(o)] :
        p \in {1, 2}, o \in {7, 8} }

PlantsEia860 ==
    {q \in FactTables(PlantsEia860Rows) :
        \A i, j \in 1..Len(q) : q[i].plant_id = q[j].plant_id => i = j}

UtilitiesEia860 ==
    FactTables({ [report_date |-> Date(2011, 1), operator_id |-> F(o)] :
                    o \in {7, 8, 9} })

GeneratorsEia860 ==
    FactTables({ [report_date |-> Date(2011, 1), plant_id |-> F(p),
                  generator_id |-> Str(g)] : p \in {1, 2}, g \in {"g1", "g2"} })

PlantsFerc ==
    SubSequences(<< [respondent_id |-> F(1), plant_name |-> Str("p1"),
                     plant_id_pudl |-> F(10)],
                    [respondent_id |-> F(2), plant_name |-> Str("p1"),
                     plant_id_pudl |-> F(20)] >>)

UtilitiesFerc ==
    SubSequences(<< [respondent_id |-> F(1), util_id_pudl |-> F(70)] >>)

PlantsSteamFerc1 ==
    FactTables({ [report_year |-> F(2011), respondent_id |-> F(r),
                  plant_name |-> Str(n)] : r \in {1, 2}, n \in {"p1", "p2"} })

FuelFerc1 ==
    FactTables({ [report_year |-> F(2011), respondent_id |-> F(r),
                  plant_name |-> Str("p1"), fuel_qty_burned |-> F(2),
                  fuel_avg_mmbtu_per_unit |-> F(3), fuel_cost_per_mmbtu |-> F(1),
                  fuel_cost_per_unit_burned |-> F(3)] : r \in {1, 2, 3} })

EmptyDb ==
    [generators_eia860 |-> <<>>, plants_eia860 |-> <<>>, utilities_eia860 |-> <<>>,
     utilities_eia |-> <<>>, plants_eia |-> <<>>, plants_steam_ferc1 |-> <<>>,
     fuel_ferc1 |-> <<>>, plants_ferc |-> <<>>, utilities_ferc |-> <<>>]

\* the store an entity output is about to be called on
EntityStores(fn) ==
    CASE fn = "utilities_eia860" ->
            { [EmptyDb EXCEPT !.utilities_eia860 = f, !.utilities_eia = u] :
                f \in UtilitiesEia860, u \in UtilitiesEia }
      [] fn = "plants_eia860" ->
            { [EmptyDb EXCEPT !.plants_eia860 = f, !.plants_eia = p,
                              !.utilities_eia = u] :
                f \in PlantsEia860, p \in PlantsEia, u \in UtilitiesEia }
      [] fn = "generators_eia860" ->
            { [EmptyDb EXCEPT !.generators_eia860 = f, !.plants_eia860 = pe,
                              !.plants_eia = p, !.utilities_eia = u] :
                f \in GeneratorsEia860, pe \in PlantsEia860, p \in PlantsEia,
                u \in UtilitiesEia }
      [] fn = "plants_steam_ferc1" ->
            { [EmptyDb EXCEPT !.plants_steam_ferc1 = f, !.plants_ferc = p,
                              !.utilities_ferc = u] :
                f \in PlantsSteamFerc1, p \in PlantsFerc, u \in UtilitiesFerc }
      [] fn = "fuel_ferc1" ->
            { [EmptyDb EXCEPT !.fuel_ferc1 = f, !.plants_ferc = p,
                              !.utilities_ferc = u] :
                f \in FuelFerc1, p \in PlantsFerc, u \in UtilitiesFerc }

EntityOutputs == {"utilities_eia860", "plants_eia860", "generators_eia860",
                  "plants_steam_ferc1", "fuel_ferc1"}

InitEntity ==
    /\ StoreInit
    /\ \E fn \in EntityOutputs : \E db \in EntityStores(fn) :
          request = [fn |-> fn, db |-> db]
    /\ out_df = NotCalled

CallUtilitiesEia860 ==
    /\ request.fn = "utilities_eia860"
    /\ out_df = NotCalled
    /\ out_df' = utilities_eia860(request.db)
    /\ UNCHANGED <<request, store, call, ret, catalogVars>>

CallPlantsEia860 ==
    /\ request.fn = "plants_eia860"
    /\ out_df = NotCalled
    /\ out_df' = plants_eia860(request.db)
    /\ UNCHANGED <<request, store, call, ret, catalogVars>>

CallGeneratorsEia860 ==
    /\ request.fn = "generators_eia860"
    /\ out_df = NotCalled
    /\ out_df' = generators_eia860(request.db)
    /\ UNCHANGED <<request, store, call, ret, catalogVars>>

CallPlantsSteamFerc1 ==
    /\ request.fn = "plants_steam_ferc1"
    /\ out_df = NotCalled
    /\ out_df' = plants_steam_ferc1(request.db)
    /\ UNCHANGED <<request, store, call, ret, catalogVars>>

CallFuelFerc1 ==
    /\ request.fn = "fuel_ferc1"
    /\ out_df = NotCalled
    /\ out_df' = fuel_ferc1(request.db)
    /\ UNCHANGED <<request, store, call, ret, catalogVars>>

NextEntity ==
    \/ CallUtilitiesEia860
    \/ CallPlantsEia860
    \/ CallGeneratorsEia860
    \/ CallPlantsSteamFerc1
    \/ CallFuelFerc1

SpecEntity == InitEntity /\ [][NextEntity]_vars

\* the fact table an entity output starts from
FactTable ==
    CASE request.fn = "utilities_eia860" -> request.db.utilities_eia860
      [] request.fn = "plants_eia860" -> request.db.plants_eia860
      [] request.fn = "generators_eia860" -> request.db.generators_eia860
      [] request.fn = "plants_steam_ferc1" -> request.db.plants_steam_ferc1
      [] request.fn = "fuel_ferc1" -> request.db.fuel_ferc1

\* an output row carries the fact row it was made from
MadeFrom(out_row, fact_row) ==
    \A c \in DOMAIN fact_row : out_row[c] = fact_row[c]

\* C11: no entity output loses a fact row to a join: these functions apply no
\* drop of unresolved rows, so every row of the fact table is in the output,
\* also a row whose operator or plant has no match in the joined tables.
C11_JoinsKeepFactRows ==
    out_df.status = "returned" =>
        \A i \in 1..Len(FactTable) :
            \E j \in 1..Len(out_df.rows) : MadeFrom(out_df.rows[j], FactTable[i])

\* C13: in an entity output that carries util_id_pudl or plant_id_pudl, the
\* column is an integer column: no floating dtype, no missing id.
C13_SurrogateIdsIntegral ==
    out_df.status = "returned" =>
        \A c \in DOMAIN out_df.dtypes :
            /\ out_df.dtypes[c] = "int64"
            /\ \A i \in 1..Len(out_df.rows) : out_df.rows[i][c] # NaN

(***************************************************************************)
(* generation_eia923, and the EIA 923 outputs on records that lack a       *)
(* plant, a fuel or a boiler / generator identifier                        *)
(***************************************************************************)

\* generation_eia923, lines 781-786: the aggregation
GenAggregate(g_df, freq, all_na) ==
    GroupByAggSum(g_df, <<"plant_id", "generator_id", "report_date">>, freq,
                  {"net_generation_mwh"}, all_na)

generation_eia923(recs, freq, all_na) ==
    LET g_df == IF freq = "None" THEN recs ELSE GenAggregate(recs, freq, all_na)
        pu_eia == PlantsUtilsEia
        out_df1 == MergeOnDateYear(g_df, pu_eia)
        out_df2 == Dropna(out_df1, {"plant_id", "plant_id_pudl", "operator_id",
                                    "util_id_pudl", "generator_id"})
    IN CleanUpTypes(out_df2, {"operator_id", "util_id_pudl", "plant_id_pudl"})

\* what a record may identify: plant 1 is resolved for 2011, plant 2 is not;
\* a record may lack the plant, the fuel or the boiler / generator
IdRecordKeys ==
    { [plant_id |-> F(1), fuel |-> Str("coal"), unit |-> Str("b1"),
       report_date |-> Date(2011, 1)],
      [plant_id |-> F(1), fuel |-> NULL, unit |-> Str("b1"),
       report_date |-> Date(2011, 1)],
      [plant_id |-> F(1), fuel |-> Str("gas"), unit |-> NULL,
       report_date |-> Date(2011, 2)],
      [plant_id |-> F(2), fuel |-> Str("coal"), unit |-> Str("b1"),
       report_date |-> Date(2011, 1)],
      [plant_id |-> NaN, fuel |-> Str("coal"), unit |-> Str("b1"),
       report_date |-> Date(2011, 1)] }

IdRecordsOf(fn) ==
    CASE fn = "generation_fuel_eia923" ->
            { [plant_id |-> k.plant_id, aer_fuel_category |-> k.fuel,
               report_date |-> k.report_date,
               fuel_consumed_total |-> F(2),
               fuel_consumed_for_electricity |-> F(2),
               fuel_mmbtu_per_unit |-> F(3),
               fuel_consumed_total_mmbtu |-> F(6),
               fuel_consumed_for_electricity_mmbtu |-> F(6),
               net_generation_mwh |-> F(5)] : k \in IdRecordKeys }
      [] fn = "fuel_receipts_costs_eia923" ->
            { [plant_id |-> k.plant_id, energy_source_simple |-> k.fuel,
               fuel_group |-> k.fuel, report_date |-> k.report_date,
               fuel_quantity |-> F(2),
               heat_content_mmbtu_per_unit |-> F(1),
               fuel_cost_per_mmbtu |-> F(1),
               sulfur_content_pct |-> F(3),
               ash_content_pct |-> F(1),
               mercury_content_ppm |-> F(1)] : k \in IdRecordKeys }
      [] fn = "boiler_fuel_eia923" ->
            { [plant_id |-> k.plant_id, boiler_id |-> k.unit,
               fuel_type_simple |-> k.fuel, report_date |-> k.report_date,
               fuel_qty_consumed |-> F(2),
               fuel_mmbtu_per_unit |-> F(1),
               sulfur_content_pct |-> F(3),
               ash_content_pct |-> F(1)] : k \in IdRecordKeys }
      [] fn = "generation_eia923" ->
            { [plant_id |-> k.plant_id,
               generator_id |-> IF k.unit = NULL THEN NULL ELSE Str("g1"),
               report_date |-> k.report_date,
               net_generation_mwh |-> F(5)] : k \in IdRecordKeys }

Eia923Outputs == OutputFunctions \cup {"generation_eia923"}

InitIds ==
    /\ StoreInit
    /\ \E fn \in Eia923Outputs, freq \in Freqs, all_na \in AllNaSums :
          \E recs \in SeqsUpTo(IdRecordsOf(fn), MaxRecs) :
             request = [fn |-> fn, freq |-> freq, all_na |-> all_na, recs |-> recs]
    /\ out_df = NotCalled

CallGenerationEia923 ==
    /\ request.fn = "generation_eia923"
    /\ out_df = NotCalled
    /\ out_df' = generation_eia923(request.recs, request.freq, request.all_na)
    /\ UNCHANGED <<request, store, call, ret, catalogVars>>

NextIds ==
    \/ CallGenerationFuelEia923
    \/ CallFuelReceiptsCostsEia923
    \/ CallBoilerFuelEia923
    \/ CallGenerationEia923

SpecIds == InitIds /\ [][NextIds]_vars

\* the rows that enter the plant and utility join: the records, or their
\* aggregates when a frequency is given
JoinInput ==
    LET recs == request.recs
        freq == request.freq
        all_na == request.all_na
    IN CASE request.fn = "generation_fuel_eia923" ->
               IF freq = "None" THEN recs ELSE GfAggregate(recs, freq, all_na)
         [] request.fn = "fuel_receipts_costs_eia923" ->
               IF freq = "None" THEN recs
               ELSE FrcAggregate(FrcTotals(recs), freq, all_na)
         [] request.fn = "boiler_fuel_eia923" ->
               IF freq = "None" THEN recs
               ELSE BfAggregate(WithProduct(recs, "total_heat_content_mmbtu",
                        "fuel_qty_consumed", "fuel_mmbtu_per_unit"), freq, all_na)
         [] request.fn = "generation_eia923" ->
               IF freq = "None" THEN recs ELSE GenAggregate(recs, freq, all_na)

\* a row is resolved: plants_utils_eia knows its plant for its year
Resolved(row) ==
    \E j \in 1..Len(PlantsUtilsEia) :
        /\ PlantsUtilsEia[j].plant_id = row.plant_id
        /\ PlantsUtilsEia[j].report_date.y = row.report_date.y

IdColumns == {"plant_id", "plant_id_pudl", "operator_id", "util_id_pudl"}

\* the id columns the closing astype(int) made integer columns, which hold
\* no missing value; the others are still float columns
IntegerIds ==
    IF request.fn \in {"generation_fuel_eia923", "fuel_receipts_costs_eia923"}
    THEN IdColumns
    ELSE {"plant_id_pudl", "operator_id", "util_id_pudl"}

NoMissingId ==
    \A i \in 1..Len(out_df.rows) : \A c \in IdColumns \ IntegerIds :
        out_df.rows[i][c] # NaN

\* the identifying field a function requires besides the four ids
RequiredField ==
    CASE request.fn = "generation_fuel_eia923" -> {}
      [] request.fn = "fuel_receipts_costs_eia923" ->
            IF request.freq = "None" THEN {"fuel_group"} ELSE {}
      [] request.fn = "boiler_fuel_eia923" -> {"boiler_id"}
      [] request.fn = "generation_eia923" -> {"generator_id"}

Day(y, m, d) == [y |-> y, m |-> m, d |-> d]

\* position of a day in the calendar order (every month within 31 days)
DayNumber(day) == (day.y * 12 + day.m) * 31 + day.d

ReportDay(row) == Day(row.report_date.y, row.report_date.m, 1)

\* (mutant) both comparisons strict
SelectByDateExclusive(tbl, start_date, end_date) ==
    LET Where(row) ==
            /\ start_date # NULL =>
                  DayNumber(ReportDay(row)) > DayNumber(start_date[1])
            /\ end_date # NULL =>
                  DayNumber(ReportDay(row)) < DayNumber(end_date[1])
    IN SelectSeq(tbl, Where)

\* pd.read_sql of select([tbl]) with .where(report_date >= start_date) if
\* start_date is not None and .where(report_date <= end_date) if end_date is
\* not None
SelectByDate(tbl, start_date, end_date) ==
    LET Where(row) ==
            /\ start_date # NULL =>
                  DayNumber(ReportDay(row)) >= DayNumber(start_date[1])
            /\ end_date # NULL =>
                  DayNumber(ReportDay(row)) <= DayNumber(end_date[1])
    IN SelectSeq(tbl, Where)

DateBounds == {NULL, <<Day(2011, 1, 31)>>, <<Day(2011, 2, 1)>>, <<Day(2011, 2, 2)>>}

DatedMonths == {1, 2, 3}

\* the records of resolved plant 1 for the first months of 2011
DatedRecordsOf(fn) ==
    CASE fn = "generation_fuel_eia923" ->
            { [plant_id |-> F(1), aer_fuel_category |-> Str("coal"),
               report_date |-> Date(2011, m),
               fuel_consumed_total |-> F(2),
               fuel_consumed_for_electricity |-> F(2),
               fuel_mmbtu_per_unit |-> F(3),
               fuel_consumed_total_mmbtu |-> F(6),
               fuel_consumed_for_electricity_mmbtu |-> F(6),
               net_generation_mwh |-> F(5)] : m \in DatedMonths }
      [] fn = "fuel_receipts_costs_eia923" ->
            { [plant_id |-> F(1), energy_source_simple |-> Str("coal"),
               fuel_group |-> Str("coal"), report_date |-> Date(2011, m),
               fuel_quantity |-> F(2),
               heat_content_mmbtu_per_unit |-> F(1),
               fuel_cost_per_mmbtu |-> F(1),
               sulfur_content_pct |-> F(3),
               ash_content_pct |-> F(1),
               mercury_content_ppm |-> F(1)] : m \in DatedMonths }
      [] fn = "boiler_fuel_eia923" ->
            { [plant_id |-> F(1), boiler_id |-> Str("b1"),
               fuel_type_simple |-> Str("coal"), report_date |-> Date(2011, m),
               fuel_qty_consumed |-> F(2),
               fuel_mmbtu_per_unit |-> F(1),
               sulfur_content_pct |-> F(3),
               ash_content_pct |-> F(1)] : m \in DatedMonths }
      [] fn = "generation_eia923" ->
            { [plant_id |-> F(1), generator_id |-> Str("g1"),
               report_date |-> Date(2011, m),
               net_generation_mwh |-> F(5)] : m \in DatedMonths }

InitDate ==
    /\ StoreInit
    /\ \E fn \in Eia923Outputs, freq \in Freqs, all_na \in AllNaSums :
          \E recs \in SeqsUpTo(DatedRecordsOf(fn), MaxRecs) :
             \E start_date \in DateBounds, end_date \in DateBounds :
                request = [fn |-> fn, freq |-> freq, all_na |-> all_na,
                           recs |-> recs, start_date |-> start_date,
                           end_date |-> end_date]
    /\ out_df = NotCalled

CallGenerationFuelEia923Dated ==
    /\ request.fn = "generation_fuel_eia923"
    /\ out_df = NotCalled
    /\ out_df' = generation_fuel_eia923(
                    SelectByDate(request.recs, request.start_date, request.end_date),
                    request.freq, request.all_na)
    /\ UNCHANGED <<request, store, call, ret, catalogVars>>

CallFuelReceiptsCostsEia923Dated ==
    /\ request.fn = "fuel_receipts_costs_eia923"
    /\ out_df = NotCalled
    /\ out_df' = fuel_receipts_costs_eia923(
                    SelectByDate(request.recs, request.start_date, request.end_date),
                    request.freq, request.all_na)
    /\ UNCHANGED <<request, store, call, ret, catalogVars>>

CallBoilerFuelEia923Dated ==
    /\ request.fn = "boiler_fuel_eia923"
    /\ out_df = NotCalled
    /\ out_df' = boiler_fuel_eia923(
                    SelectByDate(request.recs, request.start_date, request.end_date),
                    request.freq, request.all_na)
    /\ UNCHANGED <<request, store, call, ret, catalogVars>>

CallGenerationEia923Dated ==
    /\ request.fn = "generation_eia923"
    /\ out_df = NotCalled
    /\ out_df' = generation_eia923(
                    SelectByDate(request.recs, request.start_date, request.end_date),
                    request.freq, request.all_na)
    /\ UNCHANGED <<request, store, call, ret, catalogVars>>

NextDate ==
    \/ CallGenerationFuelEia923Dated
    \/ CallFuelReceiptsCostsEia923Dated
    \/ CallBoilerFuelEia923Dated
    \/ CallGenerationEia923Dated

SpecDate == InitDate /\ [][NextDate]_vars

\* start_date <= report_date <= end_date, a missing bound constraining nothing
InRange(row) ==
    /\ request.start_date # NULL =>
          DayNumber(request.start_date[1]) <= DayNumber(ReportDay(row))
    /\ request.end_date # NULL =>
          DayNumber(ReportDay(row)) <= DayNumber(request.end_date[1])

\* the time buckets the output reports on
ReportedBuckets ==
    {out_df.rows[j].report_date : j \in 1..Len(out_df.rows)}

\* C14: the date range is inclusive at both ends: a record contributes to the
\* output exactly if start_date <= report_date <= end_date, a missing bound
\* imposing no constraint.  Without aggregation the output holds one row per
\* record in range; with aggregation it holds the buckets of those records.
C14_InclusiveDateRange ==
    out_df.status = "returned" =>
        LET selected == SelectSeq(request.recs, InRange)
        IN /\ ReportedBuckets =
                 {Bucket(selected[i].report_date, request.freq) :
                     i \in 1..Len(selected)}
           /\ request.freq = "None" =>
                 [j \in 1..Len(out_df.rows) |-> out_df.rows[j].report_date]
                    = [i \in 1..Len(selected) |-> selected[i].report_date]

\* both bounds are the day of one record, which is kept, while a record of
\* the day before or after the range is left out
C14_Witness ==
    /\ out_df.status = "returned"
    /\ request.start_date = <<Day(2011, 2, 1)>>
    /\ request.end_date = <<Day(2011, 2, 1)>>
    /\ Len(request.recs) = 2
    /\ Len(out_df.rows) = 1
    /\ out_df.rows[1].report_date = Date(2011, 2)

(***************************************************************************)
(* organize_cols (src/pudl/outputs.py, lines 41-58).  A frame is its list  *)
(* of column names and its rows.                                           *)
(***************************************************************************)
MaxCols == 4
MaxLead == 2

\* the column names in use, in the order Python sorts strings
ColumnNames == <<"A", "B", "C", "D">>

NameRank(c) == CHOOSE i \in 1..Len(ColumnNames) : ColumnNames[i] = c

\* list.sort(): ascending
RECURSIVE SortList(_)
SortList(q) ==
    IF q = <<>> THEN <<>>
    ELSE LET i == CHOOSE i \in 1..Len(q) :
                     \A j \in 1..Len(q) : NameRank(q[i]) <= NameRank(q[j])
         IN <<q[i]>> \o SortList(SubSeq(q, 1, i - 1) \o SubSeq(q, i + 1, Len(q)))

\* df[labels]: the columns named, in that order; KeyError when a label is
\* not a column of df
GetColumns(df, labels) ==
    IF \E i \in 1..Len(labels) : labels[i] \notin Range(df.columns)
    THEN [status |-> "raised", rows |-> <<>>, columns |-> <<>>]
    ELSE [status |-> "returned",
          rows |-> [r \in 1..Len(df.rows) |->
                       [c \in Range(labels) |-> df.rows[r][c]]],
          columns |-> labels]

\* (mutant) the data columns left in the order of df
OrganizeColsUnsorted(df, cols) ==
    LET NotLead(c) == c \notin Range(cols)
        data_cols == SelectSeq(df.columns, NotLead)
    IN GetColumns(df, cols \o data_cols)

\* (mutant) a lead column that df does not have is left out
OrganizeColsSkipAbsent(df, cols) ==
    LET NotLead(c) == c \notin Range(cols)
        Has(c) == c \in Range(df.columns)
        data_cols == SortList(SelectSeq(df.columns, NotLead))
    IN GetColumns(df, SelectSeq(cols, Has) \o data_cols)

organize_cols(df, cols) ==
    LET NotLead(c) == c \notin Range(cols)
        data_cols == SortList(SelectSeq(df.columns, NotLead))
        organized_cols == cols \o data_cols
    IN GetColumns(df, organized_cols)

\* a frame with the given columns and one row
FrameOf(columns) ==
    [columns |-> columns,
     rows |-> << [c \in Range(columns) |-> NameRank(c)] >>]

Frames ==
    {FrameOf(q) : q \in {q \in SeqsUpTo(Range(ColumnNames), MaxCols) : NoRepeats(q)}}

LeadLists == {q \in SeqsUpTo(Range(ColumnNames), MaxLead) : NoRepeats(q)}

InitCols ==
    /\ StoreInit
    /\ \E df \in Frames, cols \in LeadLists : request = [df |-> df, cols |-> cols]
    /\ out_df = NotCalled

CallOrganizeCols ==
    /\ out_df = NotCalled
    /\ out_df' = organize_cols(request.df, request.cols)
    /\ UNCHANGED <<request, store, call, ret, catalogVars>>

NextCols == CallOrganizeCols

SpecCols == InitCols /\ [][NextCols]_vars

\* C15: organize_cols returns the columns of df, each once and with its
\* values: first cols in the given order, then the remaining columns in
\* ascending order.
C15_LeadThenSorted ==
    out_df.status = "returned" =>
        LET n == Len(request.cols)
            out == out_df.columns
        IN /\ Range(out) = Range(request.df.columns)
           /\ Len(out) = Len(request.df.columns)
           /\ SubSeq(out, 1, n) = request.cols
           /\ \A i, j \in (n + 1)..Len(out) :
                 i < j => NameRank(out[i]) < NameRank(out[j])
           /\ \A r \in 1..Len(out_df.rows) : \A c \in Range(out) :
                 out_df.rows[r][c] = request.df.rows[r][c]

\* lead columns [A, B] and data columns D, C give [A, B, C, D]
C15_Witness ==
    /\ out_df.status = "returned"
    /\ request.cols = <<"A", "B">>
    /\ request.df.columns = <<"D", "C", "B", "A">>
    /\ out_df.columns = <<"A", "B", "C", "D">>

AbsentLead == \E i \in 1..Len(request.cols) :
                 request.cols[i] \notin Range(request.df.columns)

\* C16: when a lead column is not a column of df, organize_cols raises and
\* returns no table; it does not leave the absent column out.
C16_AbsentLeadRaises ==
    (AbsentLead /\ out_df.status # "not_called") =>
        /\ out_df.status = "raised"
        /\ out_df.columns = <<>>
        /\ out_df.rows = <<>>

C16_Witness ==
    /\ AbsentLead
    /\ request.df.columns # <<>>
    /\ out_df.status = "raised"

(***************************************************************************)
(* handle_output on every kind of payload (src/src/pudl/io_managers.py,    *)
(* lines 244-318): a DataFrame for a table of the schema, a DataFrame for  *)
(* a table the schema does not hold, a query string, anything else.        *)
(***************************************************************************)

\* the DataFrames written to a table outside the schema
UnregisteredFrames == SeqsUpTo({<<Val(1)>>, <<Val(2)>>}, MaxRows)

\* the query strings handed over: CREATE VIEW creates AS SELECT * FROM select
Queries == [creates : ViewNames, select : {"parent", "child"}]

\* objects that are neither a DataFrame nor a str
UnsupportedPayloads == {"NoneType", "dict"}

AssetNames == TableNames \cup UnregisteredNames \cup ViewNames

MetadataWarning ==
    "None not found in database metadata. Dtypes of returned DataFrame might be incorrect."

\* (mutant) _get_sqlalchemy_table raises for a table the metadata lacks
HandleOutputUnregisteredRaises(w, t, df) ==
    /\ call[w].pc # "deleted"
    /\ call' = [call EXCEPT ![w] =
                  [pc |-> "raised", table |-> t, df |-> <<>>, prev |-> <<>>]]
    /\ ret' = [NoRet EXCEPT !.op = "handle_output", !.payload = "DataFrame",
                            !.table = t, !.error = "RuntimeError"]
    /\ UNCHANGED <<store, unregistered, views, db_file, aggVars>>

\* handle_output -> _handle_pandas_output, sa_table is None:
\* _get_sqlalchemy_table logs the warning and returns None, then
\* df.to_sql(table_name, con, if_exists="replace") drops the table if it
\* exists, creates it from the DataFrame and inserts the rows
HandleOutputUnregistered(w, t, df) ==
    /\ call[w].pc # "deleted"
    /\ unregistered' = [unregistered EXCEPT ![t] = <<df>>]
    /\ call' = [call EXCEPT ![w] =
                  [pc |-> "returned", table |-> t, df |-> df, prev |-> <<>>]]
    /\ ret' = [NoRet EXCEPT !.op = "handle_output", !.payload = "DataFrame",
                            !.table = t, !.warnings = {MetadataWarning}]
    /\ UNCHANGED <<store, views, db_file, aggVars>>

\* (mutant) the query executed without dropping the view first
HandleOutputStrNoDrop(w, name, query) ==
    /\ call[w].pc # "deleted"
    /\ IF views[query.creates] # NULL
       THEN /\ views' = views
            /\ call' = [call EXCEPT ![w] =
                          [pc |-> "raised", table |-> name, df |-> <<>>, prev |-> <<>>]]
            /\ ret' = [NoRet EXCEPT !.op = "handle_output", !.payload = "str",
                                    !.table = name, !.error = "OperationalError"]
       ELSE /\ views' = [views EXCEPT ![query.creates] = <<query.select>>]
            /\ call' = [call EXCEPT ![w] =
                          [pc |-> "returned", table |-> name, df |-> <<>>, prev |-> <<>>]]
            /\ ret' = [NoRet EXCEPT !.op = "handle_output", !.payload = "str",
                                    !.table = name]
    /\ UNCHANGED <<store, unregistered, db_file, aggVars>>

\* handle_output -> _handle_str_output: DROP VIEW IF EXISTS table_name, then
\* the query; CREATE VIEW raises when a view of the name it creates exists
HandleOutputStr(w, name, query) ==
    /\ call[w].pc # "deleted"
    /\ LET dropped == [views EXCEPT ![name] = NULL]
       IN IF dropped[query.creates] # NULL
          THEN /\ views' = dropped
               /\ call' = [call EXCEPT ![w] =
                             [pc |-> "raised", table |-> name, df |-> <<>>, prev |-> <<>>]]
               /\ ret' = [NoRet EXCEPT !.op = "handle_output", !.payload = "str",
                                       !.table = name, !.error = "OperationalError",
                                       !.replaced = views[name] # NULL]
          ELSE /\ views' = [dropped EXCEPT ![query.creates] = <<query.select>>]
               /\ call' = [call EXCEPT ![w] =
                             [pc |-> "returned", table |-> name, df |-> <<>>, prev |-> <<>>]]
               /\ ret' = [NoRet EXCEPT !.op = "handle_output", !.payload = "str",
                                       !.table = name,
                                       !.replaced = views[name] # NULL]
    /\ UNCHANGED <<store, unregistered, db_file, aggVars>>

\* (mutant) an unsupported object handled like a query string up to the DROP
HandleOutputUnsupportedDropsView(w, name, obj) ==
    /\ call[w].pc # "deleted"
    /\ views' = [v \in ViewNames |-> IF v = name THEN NULL ELSE views[v]]
    /\ call' = [call EXCEPT ![w] =
                  [pc |-> "raised", table |-> name, df |-> <<>>, prev |-> <<>>]]
    /\ ret' = [NoRet EXCEPT !.op = "handle_output", !.payload = obj,
                            !.table = name, !.error = "Exception"]
    /\ UNCHANGED <<store, unregistered, db_file, aggVars>>

\* handle_output, else branch: raise Exception("SQLiteIOManager only
\* supports pandas DataFrames and strings of SQL queries.")
HandleOutputUnsupported(w, name, obj) ==
    /\ call[w].pc # "deleted"
    /\ call' = [call EXCEPT ![w] =
                  [pc |-> "raised", table |-> name, df |-> <<>>, prev |-> <<>>]]
    /\ ret' = [NoRet EXCEPT !.op = "handle_output", !.payload = obj,
                            !.table = name, !.error = "Exception"]
    /\ UNCHANGED <<store, unregistered, views, db_file, aggVars>>

\* the tables of the schema written in this specification
PayloadTables == {"parent"}

NextPayload ==
    \/ \E w \in SeqWriters, t \in PayloadTables : \E df \in DataFrames(t) :
          HandleOutputDelete(w, t, df)
    \/ \E w \in SeqWriters, fault \in BOOLEAN : HandleOutputInsert(w, fault)
    \/ \E w \in SeqWriters, t \in UnregisteredNames : \E df \in UnregisteredFrames :
          HandleOutputUnregistered(w, t, df)
    \/ \E w \in SeqWriters, name \in ViewNames : \E query \in Queries :
          HandleOutputStr(w, name, query)
    \/ \E w \in SeqWriters, name \in AssetNames : \E obj \in UnsupportedPayloads :
          HandleOutputUnsupported(w, name, obj)

SpecPayload == Init /\ [][NextPayload]_vars

C18_UnsupportedPayloadChangesNothing ==
    [][(ret'.op = "handle_output" /\ ret'.payload \in UnsupportedPayloads) =>
          /\ ret'.error = "Exception"
          /\ store' = store
          /\ unregistered' = unregistered
          /\ views' = views]_vars

\* the call raised on a store that holds rows and the view of its name
C18_Witness ==
    /\ ret.op = "handle_output"
    /\ ret.payload \in UnsupportedPayloads
    /\ ret.error = "Exception"
    /\ ret.table \in ViewNames
    /\ views[ret.table] # NULL
    /\ store["parent"] # <<>>
    /\ unregistered["analysis"] # NULL

\* C19: handle_output with the query that defines the view of the asset's
\* name succeeds whether or not the view exists (so also twice in a row),
\* leaves the view with that definition, and changes no table and no other
\* view.
C19_ViewDefinitionReplaced ==
    [][\A w \in SeqWriters, name \in ViewNames, query \in Queries :
          (HandleOutputStr(w, name, query) /\ query.creates = name) =>
              /\ ret'.error = "none"
              /\ views'[name] = <<query.select>>
              /\ \A v \in ViewNames \ {name} : views'[v] = views[v]
              /\ store' = store
              /\ unregistered' = unregistered]_vars

\* the view existed when its definition was run again
C19_Witness ==
    /\ ret.op = "handle_output"
    /\ ret.payload = "str"
    /\ ret.error = "none"
    /\ ret.replaced
    /\ views[ret.table] # NULL
    /\ store["parent"] # <<>>

(***************************************************************************)
(* Two handle_output calls at a time: each writer works on a connection of *)
(* its own (engine.connect()), and nothing in SQLiteIOManager orders the   *)
(* statements of one call against those of another.                        *)
(***************************************************************************)

\* the table both writers replace
ConcTables == {"child"}

\* the DataFrames the two writers hand over: at most one row each
ConcFrames(t) == {df \in DataFrames(t) : Len(df) <= 1}

NextConc ==
    \/ \E w \in Writers, t \in ConcTables : \E df \in ConcFrames(t) :
          HandleOutputDelete(w, t, df)
    \/ \E w \in Writers, fault \in BOOLEAN : HandleOutputInsert(w, fault)

SpecConc == Init /\ [][NextConc]_vars

\* C20: when two replacements of one table have both returned, the table
\* holds the DataFrame of one of the two calls, not rows of both.
C20_OneReplacementWins ==
    \A w1, w2 \in Writers :
        (/\ w1 # w2
         /\ call[w1].pc = "returned"
         /\ call[w2].pc = "returned"
         /\ call[w1].table = call[w2].table) =>
            store[call[w1].table] \in {call[w1].df, call[w2].df}

(***************************************************************************)
(* ForeignKeyErrors (src/src/pudl/io_managers.py, lines 48-66): the        *)
(* exception that wraps the list of ForeignKeyError                        *)
(***************************************************************************)
MaxErrs == 2

\* ForeignKeyError objects as check_foreign_keys builds them
FkErrorValues ==
    { [child_table |-> "child", parent_table |-> p, foreign_key |-> fk,
       rowids |-> <<1>>] : p \in {"parent", "other"}, fk \in {<<"a">>, <<"b">>} }

\* ForeignKeyErrors(fk_errors)
FkErrorLists == SeqsUpTo(FkErrorValues, MaxErrs)

\* __iter__: return self.fk_errors, the list itself
DunderIter(self) == [type |-> "list", items |-> self.fk_errors]

\* iter(obj), as a for statement or list(obj) calls it: the object __iter__
\* returns has to be an iterator (to have __next__), which a list is not;
\* otherwise TypeError: iter() returned non-iterator of type 'list'
Iterate(self) ==
    LET it == DunderIter(self)
    IN IF it.type = "list_iterator"
       THEN [status |-> "returned", rows |-> it.items, op |-> "iter", idx |-> 0]
       ELSE [status |-> "raised", rows |-> <<>>, op |-> "iter", idx |-> 0]

\* __getitem__: self.fk_errors[idx], a Python list index (from 0, negative
\* from the end, IndexError outside)
GetItem(self, idx) ==
    LET n == Len(self.fk_errors)
    IN IF idx >= 0 /\ idx < n
       THEN [status |-> "returned", rows |-> <<self.fk_errors[idx + 1]>>,
             op |-> "getitem", idx |-> idx]
       ELSE IF idx < 0 /\ idx >= -n
       THEN [status |-> "returned", rows |-> <<self.fk_errors[n + idx + 1]>>,
             op |-> "getitem", idx |-> idx]
       ELSE [status |-> "raised", rows |-> <<>>, op |-> "getitem", idx |-> idx]

InitErrors ==
    /\ StoreInit
    /\ \E fk_errors \in FkErrorLists :
          request = [fn |-> "ForeignKeyErrors", fk_errors |-> fk_errors]
    /\ out_df = NotCalled

CallIter ==
    /\ out_df' = Iterate(request)
    /\ UNCHANGED <<request, store, call, ret, catalogVars>>

CallGetItem(idx) ==
    /\ out_df' = GetItem(request, idx)
    /\ UNCHANGED <<request, store, call, ret, catalogVars>>

NextErrors ==
    \/ CallIter
    \/ \E idx \in (-MaxErrs)..MaxErrs : CallGetItem(idx)

SpecErrors == InitErrors /\ [][NextErrors]_vars

\* C21: iterating over a ForeignKeyErrors yields the wrapped errors, each
\* once and in list order, and indexing it with i gives the i-th of them.
C21_IterationAndIndexing ==
    /\ (out_df.status # "not_called" /\ out_df.op = "iter") =>
          /\ out_df.status = "returned"
          /\ out_df.rows = request.fk_errors
    /\ (out_df.status # "not_called" /\ out_df.op = "getitem"
            /\ out_df.idx >= 0 /\ out_df.idx < Len(request.fk_errors)) =>
          /\ out_df.status = "returned"
          /\ out_df.rows = <<request.fk_errors[out_df.idx + 1]>>

(***************************************************************************)
(* The table definitions in the database file                              *)
(***************************************************************************)

\* C23: whatever handle_output calls replaced the rows of the tables of the
\* schema, each table still has the definition create_all gave it (columns
\* and foreign keys), so the foreign keys check_foreign_keys evaluates are
\* all those the schema declares.
C23_DefinitionsKept ==
    \A t \in TableNames :
        /\ db_file.tables[t] # NULL
        /\ db_file.tables[t][1] = SchemaDefinition(t)
        /\ db_file.tables[t][1].foreign_keys = ForeignKeyConstraints(t)

\* check_foreign_keys ran after loads of the child and a parent table and
\* reported a violated foreign key of the child
C23_Witness ==
    /\ ret.op = "check_foreign_keys"
    /\ ret.error = "ForeignKeyErrors"
    /\ store["child"] # <<>>
    /\ store["parent"] # <<>>
    /\ db_file.tables["child"] = <<SchemaDefinition("child")>>

(***************************************************************************)
(* Construction (__init__ -> _setup_database, lines 117-135) on a          *)
(* directory that may already hold the database file                       *)
(***************************************************************************)

\* what the file may hold before construction: it is absent, or it exists
\* with any of the tables of the schema (written by an earlier construction,
\* with a schema that had fewer tables, or an empty file)
FilesBefore ==
    {[exists |-> FALSE, engine |-> FALSE, tables |-> [t \in TableNames |-> NULL]]}
    \cup
    {[exists |-> TRUE, engine |-> FALSE,
      tables |-> [t \in TableNames |-> IF t \in present THEN CreateAll[t] ELSE NULL]] :
        present \in SUBSET TableNames}

InitSetup ==
    /\ store = [t \in TableNames |-> <<>>]
    /\ unregistered = [t \in UnregisteredNames |-> NULL]
    /\ views = [v \in ViewNames |-> NULL]
    /\ db_file \in FilesBefore
    /\ call = [w \in Writers |-> NoCall]
    /\ ret = NoRet
    /\ AggIdle

\* _setup_database: create_engine; only if not db_path.exists(): touch the
\* file and md.create_all(engine)
SetupDatabase ==
    /\ ~db_file.engine
    /\ db_file' = IF ~db_file.exists
                  THEN [exists |-> TRUE, engine |-> TRUE, tables |-> CreateAll]
                  ELSE [db_file EXCEPT !.engine = TRUE]
    /\ UNCHANGED <<store, unregistered, views, call, ret, aggVars>>

NextSetup ==
    \/ SetupDatabase
    \/ \E w \in SeqWriters, t \in TableNames : \E df \in ConcFrames(t) :
          HandleOutputDelete(w, t, df)
    \/ \E w \in SeqWriters, fault \in BOOLEAN : HandleOutputInsert(w, fault)

SpecSetup == InitSetup /\ [][NextSetup]_vars

\* C24: once the SQLiteIOManager is constructed, every table of its schema
\* exists in the database, whether the file was absent or was there before,
\* and no handle_output for a table of the schema fails for want of the table.
C24_SchemaTablesExist ==
    db_file.engine =>
        /\ \A t \in TableNames : db_file.tables[t] # NULL
        /\ ~(ret.op = "handle_output" /\ ret.error = "OperationalError")

(***************************************************************************)
(* ownership_eia860 (src/pudl/outputs.py, lines 330-376) and the           *)
(* plants_utils_eia result it selects from (lines 108-169)                 *)
(***************************************************************************)

\* the columns of the plants_utils_eia result, in the order the selects and
\* the merges give them
PuEiaColumns == <<"report_date", "plant_id", "plant_name", "operator_id",
                  "operator_name", "util_id_pudl", "plant_id_pudl">>

\* plants_utils_eia, lines 126-169
plants_utils_eia(db) ==
    LET out_df1 == Merge(db.plants_eia860, db.utilities_eia860,
                         {"report_date", "operator_id"}, "left", {"operator_name"})
        out_df2 == Merge(out_df1, db.utilities_eia,
                         {"operator_id"}, "left", {"util_id_pudl"})
        out_df3 == Merge(out_df2, db.plants_eia,
                         {"plant_id"}, "left", {"plant_id_pudl"})
        out_df4 == Dropna(out_df3, Range(PuEiaColumns))
    IN [columns |-> PuEiaColumns,
        rows |-> AsTypeInt(out_df4, {"plant_id_pudl", "util_id_pudl"})]

\* ownership_eia860, lines 339-358: the selection from pu_eia, the join and
\* the drop of the unresolved records
ownership_eia860(db) ==
    LET o_df == db.ownership_eia860
        pu_eia == GetColumns(plants_utils_eia(db),
                     <<"plant_id", "plant_id_pudl", "util_id_pudl", "report_year">>)
    IN IF pu_eia.status = "raised" THEN Raised
       ELSE LET out_df1 == Merge(o_df, pu_eia.rows, {"report_year", "plant_id"},
                                 "left", {"plant_id_pudl", "util_id_pudl"})
            IN Returned(Dropna(out_df1, {"plant_id", "plant_id_pudl",
                                         "operator_id", "util_id_pudl",
                                         "generator_id", "ownership_id"}))

\* the stores ownership_eia860 reads
OwnershipEia860 ==
    FactTables({ [report_year |-> F(2011), plant_id |-> F(p),
                  operator_id |-> F(7), generator_id |-> Str("g1"),
                  ownership_id |-> F(o)] : p \in {1, 2}, o \in {7, 8} })

OwnershipStores ==
    [ownership_eia860 : OwnershipEia860,
     plants_eia860 :
        SubSequences(<< [report_date |-> Date(2011, 1), plant_id |-> F(1),
                         plant_name |-> Str("p1"), operator_id |-> F(7)] >>),
     utilities_eia860 :
        SubSequences(<< [report_date |-> Date(2011, 1), operator_id |-> F(7),
                         operator_name |-> Str("u7")] >>),
     utilities_eia : UtilitiesEia,
     plants_eia : PlantsEia]

InitOwnership ==
    /\ StoreInit
    /\ \E db \in OwnershipStores : request = [fn |-> "ownership_eia860", db |-> db]
    /\ out_df = NotCalled

CallOwnershipEia860 ==
    /\ out_df = NotCalled
    /\ out_df' = ownership_eia860(request.db)
    /\ UNCHANGED <<request, store, call, ret, catalogVars>>

NextOwnership == CallOwnershipEia860

SpecOwnership == InitOwnership /\ [][NextOwnership]_vars

\* C25: ownership_eia860 returns a table for every store it can read: the
\* columns it selects from the plants_utils_eia result are columns of that
\* result, so the call does not fail on a missing column.
C25_OwnershipReturns ==
    out_df.status # "not_called" => out_df.status = "returned"

====
